---------------------------- MODULE Spec2Model ----------------------------
(***************************************************************************)
(* curasync: a command line wrapper around git that keeps the Cura         *)
(* configuration directory in a remote repository.                         *)
(*                                                                         *)
(* The model follows the executable script (src/unnamed/part_000): the     *)
(* checks it runs while the module loads, then main(), one action per      *)
(* statement that touches the terminal, the process table, the file system *)
(* or git.  src/index.ts is the earlier revision of the same script (no    *)
(* `cwd`, no URL argument for `init`, copy instead of rename in `clone`);  *)
(* the places where the two differ are used below as the plausible slips   *)
(* the properties are tested against.                                      *)
(*                                                                         *)
(* The environment is the user at the terminal (the lines typed), the      *)
(* companion application (Cura: launched, quitting, writing its files) and *)
(* the outcome of every subprocess.  Text is modelled as a tuple of        *)
(* one-character strings wherever the script looks inside it (URL parsing, *)
(* trim, lower-casing).  The Bun shell `$` is the one the script is        *)
(* written against: a non-zero exit status is reported in exitCode, it is  *)
(* not thrown.  An exception that leaves main() ends the process with      *)
(* status 1.                                                               *)
(***************************************************************************)
EXTENDS Integers, Sequences, FiniteSets, TLC

VARIABLES
    platform,      \* os.platform()
    cmd,           \* positionals[2], "" when there is none
    arg,           \* the positionals after the subcommand (<<>> or <<url>>)
    currentUser,   \* os.userInfo().username
    gitInstalled,  \* `git --version` can be run
    dir,           \* content of the configuration directory, NoDir when absent
    dir0,          \* its content when the script started
    backups,       \* the siblings cura_backup_<stamp>: set of [stamp, content]
    repo,          \* git's state of the configuration directory
    wc,            \* working copy against HEAD: "clean", "modified", "untracked"
    clock,         \* Date.now()
    cura,          \* companion process: "stopped", "running", "terminating"
    curaPid,       \* pid of the companion process (of its latest launch)
    launches,      \* launches of the companion so far
    pc,            \* the statement the script is at
    isGitInitialized, \* the module-level constant of the same name
    answers,       \* per prompt: the value confirm() returned, and whether on an empty line
    pidSeen,       \* curaPid local of confirmAndKillCura / main (NoPid: null)
    message,       \* commitMessage
    reprompts,     \* prompts repeated so far
    trace,         \* what the script did, in order
    raced,         \* the steps of trace that ran while the companion was running
    out,           \* lines written by console.log / console.error
    exitCode,      \* -1 while running
    uncaught,      \* the process ended by an exception leaving main() or the module
    dirtyProbe,    \* the working copy state isCuraDirty() looked at, "none" before
    cq             \* a confirm() call on its own: [default, typed, result]

vars == << platform, currentUser, cmd, arg, gitInstalled, dir, dir0, backups, repo, wc,
           clock, cura, curaPid, launches, pc, isGitInitialized, answers, pidSeen,
           message, reprompts, trace, raced, out, exitCode, uncaught, dirtyProbe,
           cq >>

envVars == << platform, currentUser, cmd, arg, gitInstalled, clock, dir0 >>

-----------------------------------------------------------------------------
(* Bounds of the model *)

\* prompts repeated in one run (an input that is not accepted)
MaxReprompts == 1
\* launches of the companion application during one run
MaxLaunches == 1
\* lines typed into a confirm() call checked on its own
MaxTyped == 3

-----------------------------------------------------------------------------
(* Text *)

Lower == {"a","b","c","d","e","f","g","h","i","j","k","l","m","n","o","p",
          "q","r","s","t","u","v","w","x","y","z"}
Upper == {"A","B","C","D","E","F","G","H","I","J","K","L","M","N","O","P",
          "Q","R","S","T","U","V","W","X","Y","Z"}
Digit == {"0","1","2","3","4","5","6","7","8","9"}
White == {" ", "\t"}

\* String.prototype.toLowerCase on one character (the letters the inputs use)
LowerChar(c) ==
    CASE c = "Y" -> "y"
      [] c = "N" -> "n"
      [] c = "E" -> "e"
      [] c = "S" -> "s"
      [] c = "O" -> "o"
      [] c = "H" -> "h"
      [] c = "T" -> "t"
      [] c = "P" -> "p"
      [] OTHER -> c

toLowerCase(s) == [i \in 1..Len(s) |-> LowerChar(s[i])]

RECURSIVE trimStart(_)
trimStart(s) ==
    IF s # <<>> /\ Head(s) \in White THEN trimStart(Tail(s)) ELSE s

RECURSIVE trimEnd(_)
trimEnd(s) ==
    IF s # <<>> /\ s[Len(s)] \in White THEN trimEnd(SubSeq(s, 1, Len(s) - 1)) ELSE s

\* String.prototype.trim
trim(s) == trimEnd(trimStart(s))

\* index of the first c in s, 0 when there is none
RECURSIVE IndexFrom(_, _, _)
IndexFrom(s, c, i) ==
    IF i > Len(s) THEN 0 ELSE IF s[i] = c THEN i ELSE IndexFrom(s, c, i + 1)

IndexOf(s, c) == IndexFrom(s, c, 1)

-----------------------------------------------------------------------------
(* isValidUrl: new URL(url) does not throw.  With no base URL the text     *)
(* (leading and trailing blanks stripped) needs a scheme, and a scheme     *)
(* of the web ("special") needs a host.                                    *)

\* String(undefined), the text new URL() sees when positionals[3] is missing
UndefinedText == <<"u","n","d","e","f","i","n","e","d">>

\* positionals[3]
Positional3 == IF Len(arg) >= 1 THEN arg[1] ELSE UndefinedText
HasPositional3 == Len(arg) >= 1

SpecialSchemes ==
    { <<"h","t","t","p">>, <<"h","t","t","p","s">>, <<"f","t","p">>,
      <<"w","s">>, <<"w","s","s">> }

SchemeOf(s) == SubSeq(s, 1, IndexOf(s, ":") - 1)

HasScheme(s) ==
    /\ IndexOf(s, ":") > 1
    /\ s[1] \in Lower \cup Upper
    /\ \A i \in 2..(IndexOf(s, ":") - 1) :
           s[i] \in Lower \cup Upper \cup Digit \cup {"+", "-", "."}

RECURSIVE SkipSlashes(_)
SkipSlashes(s) ==
    IF s # <<>> /\ Head(s) \in {"/", "\\"} THEN SkipSlashes(Tail(s)) ELSE s

\* the host of a special URL: what follows the slashes, up to the path
HostOf(s) ==
    LET rest == SkipSlashes(SubSeq(s, IndexOf(s, ":") + 1, Len(s)))
        stop == IndexOf(rest, "/")
    IN  IF stop = 0 THEN rest ELSE SubSeq(rest, 1, stop - 1)

ValidHost(h) ==
    /\ h # <<>>
    /\ \A i \in 1..Len(h) : h[i] \notin White \cup {"<", ">", "^", "|", "%"}

ParsesAsUrl(text) ==
    LET s == trim(text)
    IN  /\ HasScheme(s)
        /\ toLowerCase(SchemeOf(s)) \in SpecialSchemes => ValidHost(HostOf(s))

\* a slip: any non-empty text is taken for a URL
isValidUrlAnyText(url) == url # <<>>

isValidUrl(url) == ParsesAsUrl(url)


-----------------------------------------------------------------------------
(* Platform resolver *)

UnknownOS == "Unknown OS"

getOperatingSystem(p) ==
    CASE p = "darwin" -> "MacOS"
      [] p = "win32"  -> "Windows"
      [] p = "linux"  -> "Linux"
      [] OTHER        -> UnknownOS

getDefaultCuraDirectory(p, user) ==
    CASE getOperatingSystem(p) = "MacOS" ->
             "/Users/" \o user \o "/Library/Application Support/cura"
      [] getOperatingSystem(p) = "Windows" ->
             "C:\\Users\\" \o user \o "\\AppData\\Roaming\\cura"
      [] getOperatingSystem(p) = "Linux" ->
             "/home/" \o user \o "/.local/share/cura"
      [] OTHER -> UnknownOS

curaDirectory == getDefaultCuraDirectory(platform, currentUser)

-----------------------------------------------------------------------------
(* The prompter *)

NoDefault == "undefined"

\* a slip: the line is compared as typed, blanks and capitals included
confirmLineAsTyped(line, defaultAnswer) ==
    IF line = <<"y">> \/ line = <<"n">> THEN line[1]
    ELSE IF line = <<>>
         THEN (IF defaultAnswer # NoDefault THEN defaultAnswer ELSE "null")
         ELSE "again"

\* one pass of the loop of confirm(): the value returned for the line read,
\* "again" when the loop goes round
confirmLine(line, defaultAnswer) ==
    LET l == toLowerCase(trim(line))
    IN  IF l = <<"y">> \/ l = <<"n">> THEN l[1]
        ELSE IF l = <<>>
             THEN (IF defaultAnswer # NoDefault THEN defaultAnswer ELSE "null")
             ELSE "again"

\* one pass of the loop of ask() called without a default: the line itself,
\* where the empty line makes the loop go round
askLine(line) == line

\* what the user may type at a yes/no prompt
Lines ==
    { <<>>, <<"y">>, <<"n">>, <<"N">>, <<" ", "Y", " ">>, <<" ">>,
      <<"y", "e", "s">>, <<"x">> }

\* what the user may type as a commit message
Messages == { <<>>, <<"f", "i", "x">>, <<" ">> }

-----------------------------------------------------------------------------
(* Files and git *)

NoDir == {"ENOENT"}
NoCommit == {"no commit"}
NoRepo == [origin |-> <<>>, index |-> {}, staged |-> FALSE, head |-> NoCommit,
           subject |-> <<>>, pushed |-> NoCommit]

VersionDir == "5.6/"
GitDir == ".git"
IgnoreFile == ".gitignore"

\* the files Cura keeps, and one the user added since the last commit
CuraFiles == {VersionDir, "5.6/cura.cfg", "5.6/cura.log"}
NewFile == "5.6/new.cfg"

\* the content of the repository `clone` fetches
RemoteFiles == {VersionDir, "5.6/cura.cfg"}

\* gitignoreContent: the paths of the model its patterns match
gitignoreContent == {".DS_Store", "5.6/cache", "5.6/cura.log", "5.6/cura.log.1"}

\* what `git add .` puts into the index
Tracked(files) ==
    { f \in files \ {GitDir, VersionDir, "ENOENT"} :
        ~ (IgnoreFile \in files /\ f \in gitignoreContent) }

HasRepo == dir # NoDir /\ GitDir \in dir

Running == cura \in {"running", "terminating"}

\* the steps that change the configuration directory or its repository
MutatingSteps ==
    { "rm -rf .git", "git init", "git remote add", "git add", "git commit",
      "git push", "write .gitignore", "mv", "mkdir", "git clone" }

hist == << trace, raced >>
Log(e) ==
    /\ trace' = Append(trace, e)
    /\ raced' = IF Running /\ e \in MutatingSteps THEN raced \cup {e} ELSE raced
Did(e) == \E i \in 1..Len(trace) : trace[i] = e

Goto(l) == pc' = l /\ UNCHANGED << exitCode, uncaught >>
\* process.exit(code)
Exit(code) == pc' = "done" /\ exitCode' = code /\ uncaught' = FALSE
\* an exception nothing catches
Throw == pc' = "done" /\ exitCode' = 1 /\ uncaught' = TRUE

fsVars == << dir, backups, repo, wc >>
curaVars == << cura, curaPid, launches >>
locals == << answers, pidSeen, message, reprompts, dirtyProbe >>

NoPid == 0

-----------------------------------------------------------------------------
(* The state the script starts in *)

Platforms == {"darwin", "win32", "linux", "freebsd"}
Users == {"ada", "li"}
Commands == {"", "help", "init", "clone", "pull", "push", "cwd", "status"}

\* texts given as <repo_url>
UrlHttps == <<"h","t","t","p","s",":","/","/","g",".","c","o","/","r">>
UrlSsh == <<"s","s","h",":","/","/","g","i","t","@","g","/","r">>
UrlScp == <<"g","i","t","@","g",".","c","o",":","r">>
UrlWords == <<"n","o","t"," ","a"," ","u","r","l">>
UrlNoHost == <<"h","t","t","p","s",":","/","/">>
UrlEmpty == <<>>
UrlTexts == {UrlHttps, UrlSsh, UrlScp, UrlWords, UrlNoHost, UrlEmpty}

\* a repository that `init` or `clone` of an earlier run left: everything
\* tracked is committed and pushed
RepoOf(files, url) ==
    [origin |-> url, index |-> Tracked(files), staged |-> FALSE,
     head |-> Tracked(files), subject |-> <<"[curasync] ", "init">>,
     pushed |-> Tracked(files)]

Prompts == {"init", "overwrite", "clone", "kill", "quit"}
NotAsked == [res |-> "none", empty |-> FALSE]

Init ==
    /\ platform \in Platforms
    /\ currentUser \in Users
    /\ cmd \in Commands
    /\ arg \in {<<>>} \cup {<<u>> : u \in UrlTexts}
    /\ cmd \notin {"init", "clone"} => arg = <<>>
    /\ cmd \notin {"", "cwd"} => platform = "linux" /\ currentUser = "ada"
    /\ gitInstalled \in BOOLEAN
    /\ dir0 \in {NoDir, {"5.4/"}, CuraFiles, CuraFiles \cup {GitDir},
                 CuraFiles \cup {GitDir, IgnoreFile},
                 CuraFiles \cup {GitDir, NewFile}}
    /\ dir = dir0
    /\ repo = IF HasRepo THEN RepoOf(dir \ {NewFile}, UrlHttps) ELSE NoRepo
    /\ wc \in {"clean", "modified", "untracked"}
    /\ wc = "untracked" <=> NewFile \in dir
    /\ (~ HasRepo \/ cmd # "push") => wc = "clean"
    /\ clock \in {1, 2}
    /\ cmd # "clone" => clock = 1
    /\ backups = {[stamp |-> t, content |-> CuraFiles] : t \in 1..(clock - 1)}
    /\ cura \in {"stopped", "running"}
    /\ curaPid = IF cura = "running" THEN 1 ELSE 0
    /\ launches = 0
    /\ pc = "checkCuraDirectory"
    /\ isGitInitialized = FALSE
    /\ answers = [p \in Prompts |-> NotAsked]
    /\ pidSeen = NoPid
    /\ message = <<>>
    /\ reprompts = 0
    /\ trace = <<>>
    /\ raced = {}
    /\ out = <<>>
    /\ exitCode = -1
    /\ uncaught = FALSE
    /\ dirtyProbe = "none"
    /\ cq = [default |-> NoDefault, typed |-> <<>>, result |-> "again"]

-----------------------------------------------------------------------------
(* The companion application *)

CuraLaunch ==
    /\ pc # "done"
    /\ cura = "stopped"
    /\ launches < MaxLaunches
    /\ cura' = "running"
    /\ curaPid' = curaPid + 1
    /\ launches' = launches + 1
    /\ UNCHANGED << envVars, fsVars, locals, pc, isGitInitialized, hist, out,
                    exitCode, uncaught, cq >>

\* the process ends: the user quits it, or it honours the signal
CuraQuit ==
    /\ pc # "done"
    /\ Running
    /\ cura' = "stopped"
    /\ UNCHANGED << curaPid, launches, envVars, fsVars, locals, pc,
                    isGitInitialized, hist, out, exitCode, uncaught, cq >>

\* Cura writes a file of its configuration directory, creating what is missing
CuraWrite ==
    /\ pc # "done"
    /\ Running
    /\ \E f \in {"5.6/cura.cfg"} :
          /\ dir' = (dir \ NoDir) \cup {VersionDir, f}
          /\ wc' = IF ~ HasRepo \/ repo.head = NoCommit THEN wc
                   ELSE IF f \in repo.head THEN "modified"
                   ELSE IF wc = "clean" THEN "untracked" ELSE wc
    /\ UNCHANGED << backups, repo, curaVars, envVars, locals, pc,
                    isGitInitialized, hist, out, exitCode, uncaught, cq >>

-----------------------------------------------------------------------------
(* Module load: the precondition checks *)

checkCuraDirectory ==
    /\ pc = "checkCuraDirectory"
    /\ IF getOperatingSystem(platform) = UnknownOS \/ dir = NoDir
       THEN Throw
       ELSE Goto("checkGitInstallation")
    /\ UNCHANGED << envVars, fsVars, curaVars, locals, isGitInitialized, hist,
                    out, cq >>

checkGitInstallation ==
    /\ pc = "checkGitInstallation"
    /\ Log("git --version")
    /\ IF gitInstalled THEN Goto("checkCuraVersionDirectory") ELSE Throw
    /\ UNCHANGED << envVars, fsVars, curaVars, locals, isGitInitialized, out, cq >>

checkCuraVersionDirectory ==
    /\ pc = "checkCuraVersionDirectory"
    /\ IF VersionDir \in dir THEN Goto("checkGitInitialization") ELSE Throw
    /\ UNCHANGED << envVars, fsVars, curaVars, locals, isGitInitialized, hist,
                    out, cq >>

checkGitInitialization ==
    /\ pc = "checkGitInitialization"
    /\ Log("git status")
    /\ isGitInitialized' = HasRepo
    /\ Goto("main")
    /\ UNCHANGED << envVars, fsVars, curaVars, locals, out, cq >>

-----------------------------------------------------------------------------
(* main: the commands that ask nothing *)

InfoText ==
    "curasync (v0) OS: " \o getOperatingSystem(platform)
        \o " Cura Directory: " \o curaDirectory
        \o " isInitialized?: " \o (IF isGitInitialized THEN "true" ELSE "false")
HelpText == "curasync help init clone pull push cwd"

printInfo == <<InfoText>>
printHelp == <<HelpText>>

Quiet == UNCHANGED << envVars, fsVars, curaVars, locals, isGitInitialized, hist, cq >>

\* main, lines 287-291
MainBanner ==
    /\ pc = "main" /\ cmd = ""
    /\ out' = out \o printInfo \o printHelp
    /\ Exit(0)
    /\ Quiet

\* main, lines 293-296
MainHelp ==
    /\ pc = "main" /\ cmd = "help"
    /\ out' = out \o printHelp
    /\ Exit(0)
    /\ Quiet

\* a slip (the earlier revision has no `cwd`): the command is not recognized
MainCwdUnrecognized ==
    /\ pc = "main" /\ cmd = "cwd"
    /\ out' = Append(out, "unrecognized command " \o cmd) \o printHelp
    /\ Exit(1)
    /\ Quiet

\* main, lines 427-431
MainCwd ==
    /\ pc = "main" /\ cmd = "cwd"
    /\ out' = Append(out, curaDirectory)
    /\ Exit(0)
    /\ Quiet

\* a slip: the usage error ends with status 0, like the banner
MainUnrecognizedExitZero ==
    /\ pc = "main"
    /\ cmd \notin {"", "help", "init", "clone", "pull", "push", "cwd"}
    /\ out' = Append(out, "unrecognized command " \o cmd) \o printHelp
    /\ Exit(0)
    /\ Quiet

\* main, lines 433-435
MainUnrecognized ==
    /\ pc = "main"
    /\ cmd \notin {"", "help", "init", "clone", "pull", "push", "cwd"}
    /\ out' = Append(out, "unrecognized command " \o cmd) \o printHelp
    /\ Exit(1)
    /\ Quiet

\* main, lines 376-382
MainPull ==
    /\ pc = "main" /\ cmd = "pull"
    /\ Log("git pull")
    /\ \E ok \in BOOLEAN :
          /\ ok => HasRepo
          /\ IF ok
             THEN /\ out' = out \o <<"pulling config from origin...",
                                     "pulled config from origin!">>
                  /\ Exit(0)
             ELSE /\ out' = Append(out, "pulling config from origin...")
                  /\ Throw
    /\ UNCHANGED << envVars, fsVars, curaVars, locals, isGitInitialized, cq >>

-----------------------------------------------------------------------------
(* Process guard *)

\* what getCuraPid() can come to: null, the pid, or one of its two throws
\* (several pids on stdout are not a number; any other pgrep status is "weird")
getCuraPid ==
    IF Running THEN {"pid", "NaN", "weird"} ELSE {"null", "weird"}

\* killProcess(pid): `kill` succeeds when the process is there
killDelivers(pid) == Running /\ curaPid = pid

\* a call of confirm(): the prompt is shown and a line read; the loop goes
\* round (at most MaxReprompts times in a run), or the value is returned and
\* the caller takes its branch for "y" or its branch for anything else
Confirm(at, p, defaultAnswer, yes, other) ==
    /\ pc = at
    /\ Log("prompt " \o p)
    /\ \E line \in Lines :
          LET res == confirmLine(line, defaultAnswer)
          IN  IF res = "again"
              THEN /\ reprompts < MaxReprompts
                   /\ reprompts' = reprompts + 1
                   /\ answers' = answers
                   /\ Goto(at)
              ELSE /\ answers' = [answers EXCEPT
                                    ![p] = [res |-> res, empty |-> trim(line) = <<>>]]
                   /\ reprompts' = reprompts
                   /\ IF res = "y" THEN yes ELSE other
    /\ UNCHANGED << envVars, fsVars, curaVars, isGitInitialized, pidSeen, message,
                    dirtyProbe, out, cq >>

\* where confirmAndKillCura() returns true to
AfterGuard == IF cmd = "init" THEN "init_rm" ELSE "clone_mv"

\* confirmAndKillCura, lines 242-246
KillLookup ==
    /\ pc = "kill_lookup"
    /\ Log("pgrep")
    /\ \E res \in getCuraPid :
          CASE res = "null" -> pidSeen' = NoPid /\ Goto(AfterGuard)
            [] res = "pid" -> pidSeen' = curaPid /\ Goto("kill_confirm")
            [] OTHER -> pidSeen' = pidSeen /\ Throw
    /\ UNCHANGED << envVars, fsVars, curaVars, isGitInitialized, answers, message,
                    reprompts, dirtyProbe, out, cq >>

\* a slip: the answer is not looked at
KillConfirmIgnoringAnswer ==
    Confirm("kill_confirm", "kill", "y", Goto("kill_signal"), Goto("kill_signal"))

\* confirmAndKillCura, lines 248-255, and the throw of its caller on `false`
KillConfirm ==
    Confirm("kill_confirm", "kill", "y", Goto("kill_signal"), Throw)

\* confirmAndKillCura, lines 257-258
KillSignal ==
    /\ pc = "kill_signal"
    /\ Log("kill")
    /\ IF killDelivers(pidSeen)
       THEN cura' = "terminating" /\ Goto(AfterGuard)
       ELSE cura' = cura /\ Throw
    /\ UNCHANGED << envVars, fsVars, curaPid, launches, isGitInitialized, locals,
                    out, cq >>

-----------------------------------------------------------------------------
(* init *)

\* a slip: the process guard comes right after the first confirmation
InitConfirmThenGuard ==
    Confirm("init_confirm", "init", "n", Goto("kill_lookup"), Exit(1))

\* a slip: the second confirmation is left out
InitConfirmSkippingOverwrite ==
    Confirm("init_confirm", "init", "n", Goto("init_url"), Exit(1))

\* main, lines 298-306
InitConfirm ==
    Confirm("init_confirm", "init", "n",
            Goto(IF isGitInitialized THEN "init_already" ELSE "init_url"),
            Exit(1))

\* a slip: the overwrite confirmation defaults to "y"
InitAlreadyDefaultYes ==
    Confirm("init_already", "overwrite", "y", Goto("init_url"), Exit(1))

\* main, lines 308-317
InitAlready ==
    Confirm("init_already", "overwrite", "n", Goto("init_url"), Exit(1))

\* main, lines 319-326
InitUrl ==
    /\ pc = "init_url"
    /\ IF ~ isValidUrl(Positional3)
       THEN /\ out' = Append(out, "Invalid URL. Please enter a valid URL.")
            /\ Exit(1)
       ELSE /\ out' = out
            /\ Goto("kill_lookup")
    /\ UNCHANGED << envVars, fsVars, curaVars, isGitInitialized, locals, hist, cq >>

\* a slip: a failed call is swallowed and the sequence goes on
StepIgnoringFailure(at, e, can, effect, next) ==
    /\ pc = at
    /\ Log(e)
    /\ \E ok \in BOOLEAN :
          /\ ok => can
          /\ IF ok THEN effect ELSE UNCHANGED fsVars
          /\ next
    /\ UNCHANGED << envVars, curaVars, isGitInitialized, locals, out, cq >>

\* a subprocess or file system call of the script: it succeeds (only where it
\* can) with the given effect and the script goes on, or it fails and throws
Step(at, e, can, effect, next) ==
    /\ pc = at
    /\ Log(e)
    /\ \E ok \in BOOLEAN :
          /\ ok => can
          /\ IF ok THEN effect /\ next ELSE UNCHANGED fsVars /\ Throw
    /\ UNCHANGED << envVars, curaVars, isGitInitialized, locals, out, cq >>

\* initializeRepo, lines 188-190
InitRemoveGit ==
    IF isGitInitialized
    THEN Step("init_rm", "rm -rf .git", dir # NoDir,
              /\ dir' = dir \ {GitDir}
              /\ repo' = NoRepo
              /\ wc' = "clean"
              /\ UNCHANGED backups,
              Goto("init_git"))
    ELSE /\ pc = "init_rm"
         /\ Goto("init_git")
         /\ UNCHANGED << envVars, fsVars, curaVars, isGitInitialized, locals,
                         hist, out, cq >>

\* initializeRepo, line 193
InitGitInit ==
    Step("init_git", "git init", dir # NoDir,
         /\ dir' = dir \cup {GitDir}
         /\ repo' = IF HasRepo THEN repo ELSE NoRepo
         /\ UNCHANGED << backups, wc >>,
         Goto("init_remote"))

\* initializeRepo, line 196
InitRemoteAdd ==
    Step("init_remote", "git remote add", HasRepo /\ repo.origin = <<>>,
         /\ repo' = [repo EXCEPT !.origin = Positional3]
         /\ UNCHANGED << dir, backups, wc >>,
         Goto("init_add"))

\* initializeRepo, line 199
InitAdd ==
    Step("init_add", "git add", HasRepo,
         /\ repo' = [repo EXCEPT !.index = Tracked(dir),
                                 !.staged = Tracked(dir) # repo.head]
         /\ UNCHANGED << dir, backups, wc >>,
         Goto("init_commit"))

\* initializeRepo, lines 200-202
InitCommit ==
    Step("init_commit", "git commit", HasRepo /\ repo.staged,
         /\ repo' = [repo EXCEPT !.head = repo.index, !.staged = FALSE,
                                 !.subject = <<"[curasync] ", "init">>]
         /\ wc' = "clean"
         /\ UNCHANGED << dir, backups >>,
         Goto("init_push"))

\* initializeRepo, line 205
InitPush ==
    Step("init_push", "git push", HasRepo /\ repo.head # NoCommit /\ repo.origin # <<>>,
         /\ repo' = [repo EXCEPT !.pushed = repo.head]
         /\ UNCHANGED << dir, backups, wc >>,
         Goto("init_ignore"))

\* initializeRepo, line 207, and main, line 328
InitIgnore ==
    Step("init_ignore", "write .gitignore", dir # NoDir,
         /\ dir' = dir \cup {IgnoreFile}
         /\ wc' = IF HasRepo /\ IgnoreFile \notin repo.head /\ wc = "clean"
                  THEN "untracked" ELSE wc
         /\ UNCHANGED << backups, repo >>,
         Exit(0))

-----------------------------------------------------------------------------
(* clone *)

\* main, lines 331-342
MainClone ==
    /\ pc = "main" /\ cmd = "clone"
    /\ IF ~ HasPositional3 \/ Positional3 = <<>>
       THEN /\ out' = Append(out, "No URL provided.")
            /\ Exit(1)
       ELSE IF ~ isValidUrl(Positional3)
       THEN /\ out' = Append(out, "Invalid URL provided for clone operation")
            /\ Exit(1)
       ELSE /\ out' = out
            /\ Goto("clone_confirm")
    /\ UNCHANGED << envVars, fsVars, curaVars, isGitInitialized, locals, hist, cq >>

\* a slip: the directory is replaced whatever the answer
CloneConfirmDefaultYes ==
    Confirm("clone_confirm", "clone", "y", Goto("kill_lookup"), Exit(1))

\* main, lines 344-353
CloneConfirm ==
    Confirm("clone_confirm", "clone", "n", Goto("kill_lookup"), Exit(1))

\* path.join(curaDirectory, "../cura_backup_" + Date.now()): the stamp names it
backupDirectory == clock

\* a slip (the earlier revision's `cp -r`): the backup is a copy, the
\* directory stays where it is
CloneBackupByCopy ==
    Step("clone_mv", "mv", dir # NoDir,
         /\ backups' = backups \cup {[stamp |-> backupDirectory, content |-> dir]}
         /\ UNCHANGED << dir, repo, wc >>,
         Goto("clone_mkdir"))

\* main, lines 359-365: one rename moves the directory, .git included
CloneBackup ==
    Step("clone_mv", "mv", dir # NoDir,
         /\ backups' = backups \cup {[stamp |-> backupDirectory, content |-> dir]}
         /\ dir' = NoDir
         /\ repo' = NoRepo
         /\ wc' = "clean",
         Goto("clone_mkdir"))

\* main, line 366
CloneMkdir ==
    Step("clone_mkdir", "mkdir", dir = NoDir,
         /\ dir' = {}
         /\ UNCHANGED << backups, repo, wc >>,
         Goto("clone_git"))

\* main, lines 369-373: git clones into an existing directory only if it is empty
CloneGit ==
    Step("clone_git", "git clone", dir = {},
         /\ dir' = RemoteFiles \cup {GitDir}
         /\ repo' = RepoOf(RemoteFiles, Positional3)
         /\ wc' = "clean"
         /\ UNCHANGED backups,
         Exit(0))

-----------------------------------------------------------------------------
(* push *)

\* main, lines 384-387
PushLookup ==
    /\ pc = "main" /\ cmd = "push"
    /\ Log("pgrep")
    /\ \E res \in getCuraPid :
          CASE res = "null" -> pidSeen' = NoPid /\ Goto("push_dirty")
            [] res = "pid" -> pidSeen' = curaPid /\ Goto("push_confirm")
            [] OTHER -> pidSeen' = pidSeen /\ Throw
    /\ UNCHANGED << envVars, fsVars, curaVars, isGitInitialized, answers, message,
                    reprompts, dirtyProbe, out, cq >>

\* a slip (what confirmAndKillCura's callers do): declining ends the run
PushConfirmAbortOnDecline ==
    Confirm("push_confirm", "quit", "y", Goto("push_kill"), Throw)

\* a slip: the signal is sent whatever the answer
PushConfirmKillAnyway ==
    Confirm("push_confirm", "quit", "y", Goto("push_kill"), Goto("push_kill"))

\* main, lines 388-393
PushConfirm ==
    Confirm("push_confirm", "quit", "y", Goto("push_kill"), Goto("push_dirty"))

\* main, line 394
PushKill ==
    /\ pc = "push_kill"
    /\ Log("kill")
    /\ IF killDelivers(pidSeen)
       THEN cura' = "terminating" /\ Goto("push_sleep")
       ELSE cura' = cura /\ Throw
    /\ UNCHANGED << envVars, fsVars, curaPid, launches, isGitInitialized, locals,
                    out, cq >>

\* main, line 395
PushSleep ==
    /\ pc = "push_sleep"
    /\ Log("sleep")
    /\ Goto("push_dirty")
    /\ UNCHANGED << envVars, fsVars, curaVars, isGitInitialized, locals, out, cq >>

\* exit status of `git diff-index --exit-code HEAD`: 1 when a tracked file
\* differs from HEAD, 128 when there is no HEAD to compare with, 0 otherwise
diffIndexStatus ==
    IF ~ HasRepo \/ repo.head = NoCommit THEN 128
    ELSE IF wc = "modified" THEN 1 ELSE 0

\* a slip: every status but 0 counts as dirty, and the test is dropped
isCuraDirtyAlways == TRUE

isCuraDirty == diffIndexStatus = 1

\* main, lines 399-406
PushDirty ==
    /\ pc = "push_dirty"
    /\ Log("git diff-index")
    /\ dirtyProbe' = IF diffIndexStatus = 128 THEN "no HEAD" ELSE wc
    /\ IF ~ isCuraDirty
       THEN /\ out' = Append(out, "Looks like there are no changes to push")
            /\ Exit(1)
       ELSE /\ out' = Append(out, "pushing config to origin")
            /\ Goto("push_add")
    /\ UNCHANGED << envVars, fsVars, curaVars, isGitInitialized, answers, pidSeen,
                    message, reprompts, cq >>

\* main, line 408
PushAdd ==
    Step("push_add", "git add", HasRepo,
         /\ repo' = [repo EXCEPT !.index = Tracked(dir),
                                 !.staged = (wc # "clean" \/ repo.staged)]
         /\ UNCHANGED << dir, backups, wc >>,
         Goto("push_diff"))

\* printDiff, called at line 410
PushDiff ==
    /\ pc = "push_diff"
    /\ Log("git diff --staged")
    /\ \E ok \in BOOLEAN :
          /\ ok => HasRepo
          /\ IF ok THEN out' = Append(out, "diff --stat") /\ Goto("push_ask")
                   ELSE out' = out /\ Throw
    /\ UNCHANGED << envVars, fsVars, curaVars, isGitInitialized, locals, cq >>

\* a slip: an empty line is taken as the message
PushAskAcceptingEmpty ==
    /\ pc = "push_ask"
    /\ Log("prompt message")
    /\ \E line \in Messages :
          /\ message' = line
          /\ reprompts' = reprompts
          /\ Goto("push_commit")
    /\ UNCHANGED << envVars, fsVars, curaVars, isGitInitialized, answers, pidSeen,
                    dirtyProbe, out, cq >>

\* main, lines 412-414: ask() without a default
PushAsk ==
    /\ pc = "push_ask"
    /\ Log("prompt message")
    /\ \E line \in Messages :
          IF askLine(line) = <<>>
          THEN /\ reprompts < MaxReprompts
               /\ reprompts' = reprompts + 1
               /\ message' = message
               /\ Goto("push_ask")
          ELSE /\ message' = askLine(line)
               /\ reprompts' = reprompts
               /\ Goto("push_commit")
    /\ UNCHANGED << envVars, fsVars, curaVars, isGitInitialized, answers, pidSeen,
                    dirtyProbe, out, cq >>

\* main, lines 416-419
PushCommit ==
    Step("push_commit", "git commit", HasRepo /\ repo.staged,
         /\ repo' = [repo EXCEPT !.head = repo.index, !.staged = FALSE,
                                 !.subject = <<"[curasync] ", message>>]
         /\ wc' = "clean"
         /\ UNCHANGED << dir, backups >>,
         Goto("push_push"))

\* main, lines 421-424
PushPush ==
    Step("push_push", "git push", HasRepo /\ repo.origin # <<>>,
         /\ repo' = [repo EXCEPT !.pushed = repo.head]
         /\ UNCHANGED << dir, backups, wc >>,
         Exit(0))

Load ==
    \/ checkCuraDirectory
    \/ checkGitInstallation
    \/ checkCuraVersionDirectory
    \/ checkGitInitialization

Companion == CuraLaunch \/ CuraQuit \/ CuraWrite

Guard == KillLookup \/ KillConfirm \/ KillSignal

MainInit ==
    /\ pc = "main" /\ cmd = "init"
    /\ Goto("init_confirm")
    /\ UNCHANGED << envVars, fsVars, curaVars, isGitInitialized, locals, hist,
                    out, cq >>

InitCommand ==
    \/ MainInit \/ InitConfirm \/ InitAlready \/ InitUrl
    \/ InitRemoveGit \/ InitGitInit \/ InitRemoteAdd \/ InitAdd \/ InitCommit
    \/ InitPush \/ InitIgnore

CloneCommand ==
    MainClone \/ CloneConfirm \/ CloneBackup \/ CloneMkdir \/ CloneGit

PushCommand ==
    \/ PushLookup \/ PushConfirm \/ PushKill \/ PushSleep \/ PushDirty
    \/ PushAdd \/ PushDiff \/ PushAsk \/ PushCommit \/ PushPush

Next ==
    \/ Load
    \/ Companion
    \/ MainBanner \/ MainHelp \/ MainCwd \/ MainUnrecognized \/ MainPull
    \/ Guard
    \/ InitCommand
    \/ CloneCommand
    \/ PushCommand

Spec == Init /\ [][Next]_vars

-----------------------------------------------------------------------------
(* confirm() on its own: any default, any lines *)

InitConfirmCall ==
    /\ platform = "linux" /\ currentUser = "ada" /\ cmd = "" /\ arg = <<>>
    /\ gitInstalled = TRUE
    /\ dir0 = CuraFiles /\ dir = dir0 /\ backups = {} /\ repo = NoRepo
    /\ wc = "clean" /\ clock = 1
    /\ cura = "stopped" /\ curaPid = 0 /\ launches = 0
    /\ pc = "confirm"
    /\ isGitInitialized = FALSE
    /\ answers = [p \in Prompts |-> NotAsked]
    /\ pidSeen = NoPid /\ message = <<>> /\ reprompts = 0
    /\ trace = <<>> /\ raced = {} /\ out = <<>>
    /\ exitCode = -1 /\ uncaught = FALSE /\ dirtyProbe = "none"
    /\ cq \in [default : {"y", "n", NoDefault}, typed : {<<>>}, result : {"again"}]

\* confirm, lines 144-158: one more line is read while the loop goes round
ConfirmRead ==
    /\ pc = "confirm"
    /\ cq.result = "again"
    /\ Len(cq.typed) < MaxTyped
    /\ \E line \in Lines :
          cq' = [cq EXCEPT !.typed = Append(@, line),
                           !.result = confirmLine(line, cq.default)]
    /\ UNCHANGED << envVars, fsVars, curaVars, pc, isGitInitialized, locals,
                    hist, out, exitCode, uncaught >>

SpecConfirm == InitConfirmCall /\ [][ConfirmRead]_vars

-----------------------------------------------------------------------------
(* Properties *)

Done == pc = "done"
Mutated == \E i \in 1..Len(trace) : trace[i] \in MutatingSteps
Asked(p) == answers[p].res # "none"

\* position of the first e in trace, 0 when it is not there
RECURSIVE PosFrom(_, _)
PosFrom(e, i) ==
    IF i > Len(trace) THEN 0 ELSE IF trace[i] = e THEN i ELSE PosFrom(e, i + 1)
Pos(e) == PosFrom(e, 1)
Before(a, b) == Pos(a) > 0 /\ (Pos(b) > 0 => Pos(a) < Pos(b))

\* the texts of the model that new URL() rejects, told apart by hand
NotUrls == {UndefinedText, UrlScp, UrlWords, UrlNoHost, UrlEmpty}
BadUrl == Positional3 \in NotUrls

\* C1: an `init` whose URL is missing or is no URL ends with status 1, whatever
\* was answered before the check, and none of the steps that change the
\* directory or run git for the operation has been taken.
C1_InitBadUrl ==
    (cmd = "init" /\ BadUrl) =>
        /\ ~ Mutated
        /\ ~ Did("pgrep") /\ ~ Did("kill")
        /\ Done => exitCode = 1

C1_Witness ==
    /\ cmd = "init" /\ BadUrl /\ Done
    /\ isGitInitialized
    /\ answers["init"].res = "y" /\ answers["overwrite"].res = "y"
    /\ out = <<"Invalid URL. Please enter a valid URL.">>

\* C2: when the companion is found running during `init` or `clone` and the
\* termination prompt is answered "n", the run ends with status 1, no signal
\* was sent and no step that changes the directory or its repository was taken.
C2_DeclinedKill ==
    (cmd \in {"init", "clone"} /\ Asked("kill") /\ answers["kill"].res # "y") =>
        /\ Done /\ exitCode = 1
        /\ ~ Did("kill")
        /\ ~ Mutated
        /\ backups = {[stamp |-> t, content |-> CuraFiles] : t \in 1..(clock - 1)}

C2_Witness ==
    /\ cmd = "clone" /\ answers["kill"].res = "n" /\ Done
    /\ cura = "running"

\* C3: no step of `init` or `clone` that changes the directory or its
\* repository runs while the companion process is running.
C3_NoStepWhileRunning ==
    cmd \in {"init", "clone"} => raced = {}

\* the companion never ran during this run
NeverRan == curaPid = 0

\* C4: in a `clone` that got past the URL check, the confirmation and the
\* process guard, git clone is started only after the rename and the mkdir;
\* the rename leaves nothing at the original path, and, with the companion not
\* running, git clone starts with the backup cura_backup_<stamp> holding the
\* previous content and the directory empty.
C4_BackupBeforeClone ==
    cmd = "clone" =>
        /\ (pc = "clone_git" \/ Did("git clone")) =>
               /\ Before("mv", "mkdir") /\ Before("mkdir", "git clone")
               /\ answers["clone"].res = "y"
               /\ \E b \in backups : b.stamp = backupDirectory
        /\ (pc = "clone_mkdir" /\ NeverRan) =>
               /\ dir = NoDir
               /\ [stamp |-> clock, content |-> dir0] \in backups
        /\ (pc = "clone_git" /\ NeverRan) =>
               /\ dir = {}
               /\ backups = {[stamp |-> t, content |-> CuraFiles] : t \in 1..(clock - 1)}
                              \cup {[stamp |-> clock, content |-> dir0]}

C4_Witness ==
    /\ cmd = "clone" /\ pc = "clone_git" /\ NeverRan
    /\ GitDir \in dir0 /\ clock = 2

PushSteps == {"git add", "git commit", "git push"}

\* C5: a `push` whose dirty check finds the working copy equal to the last
\* commit ends with status 1, and stage, commit and push are not run, whatever
\* was answered to the termination prompt.
C5_CleanPush ==
    cmd = "push" =>
        /\ dirtyProbe \in {"none", "clean"} =>
               \A i \in 1..Len(trace) : trace[i] \notin PushSteps
        /\ dirtyProbe = "clean" => Done /\ exitCode = 1 /\ ~ uncaught

C5_Witness ==
    /\ cmd = "push" /\ dirtyProbe = "clean" /\ Done
    /\ answers["quit"].res = "y" /\ Did("sleep")

\* what the lines of the model are once trimmed and lower-cased, told by hand
YesLines == {<<"y">>, <<" ", "Y", " ">>}
NoLines == {<<"n">>, <<"N">>}
EmptyLines == {<<>>, <<" ">>}
LastTyped == cq.typed[Len(cq.typed)]

LoadSteps == <<"git --version", "git status">>

\* the configuration directory of the two users of the model, written out
PathOf ==
    [p \in {"darwin", "win32", "linux"} |->
        [u \in Users |->
            CASE p = "darwin" /\ u = "ada" -> "/Users/ada/Library/Application Support/cura"
              [] p = "darwin" /\ u = "li" -> "/Users/li/Library/Application Support/cura"
              [] p = "win32" /\ u = "ada" -> "C:\\Users\\ada\\AppData\\Roaming\\cura"
              [] p = "win32" /\ u = "li" -> "C:\\Users\\li\\AppData\\Roaming\\cura"
              [] p = "linux" /\ u = "ada" -> "/home/ada/.local/share/cura"
              [] p = "linux" /\ u = "li" -> "/home/li/.local/share/cura"]]

\* C7 as stated: a `cwd` run whose startup checks pass prints the path and
\* nothing else, ends with status 0, and runs no subprocess from start to end.
C7_NoSubprocess ==
    (cmd = "cwd" /\ Done /\ ~ uncaught) =>
        /\ exitCode = 0
        /\ out = <<PathOf[platform][currentUser]>>
        /\ trace = <<>>

\* C7, amended: a `cwd` run whose startup checks pass prints the path and
\* nothing else and ends with status 0; the only subprocesses of the run are
\* the two startup checks, `git --version` and `git status`; it shows no
\* prompt and changes no file.
C7_Cwd ==
    (cmd = "cwd" /\ Done /\ ~ uncaught) =>
        /\ exitCode = 0
        /\ out = <<PathOf[platform][currentUser]>>
        /\ trace = LoadSteps
        /\ \A p \in Prompts : ~ Asked(p)
        /\ NeverRan => dir = dir0
        /\ backups = {}
        /\ repo = IF GitDir \in dir0 THEN RepoOf(dir0, UrlHttps) ELSE NoRepo

C7_Witness ==
    /\ cmd = "cwd" /\ Done /\ exitCode = 0
    /\ platform = "win32" /\ currentUser = "li"

\* C8: `init` removes existing repository metadata only after the second
\* confirmation was answered "y"; an answer that comes to "n" (the default)
\* ends the run with status 1 and the metadata as it was; without a
\* repository the second confirmation is not asked.
C8_OverwriteGate ==
    cmd = "init" =>
        /\ Did("rm -rf .git") =>
               /\ isGitInitialized
               /\ answers["overwrite"].res = "y" /\ ~ answers["overwrite"].empty
               /\ Before("prompt overwrite", "rm -rf .git")
        /\ (Asked("overwrite") /\ answers["overwrite"].res # "y") =>
               /\ Done /\ exitCode = 1
               /\ ~ Mutated
               /\ GitDir \in dir /\ repo = RepoOf(dir0, UrlHttps)
        /\ Asked("overwrite") => answers["init"].res = "y" /\ isGitInitialized
        /\ (~ isGitInitialized /\ pc # "checkGitInitialization") =>
               ~ Did("prompt overwrite")
        /\ (isGitInitialized /\ (Did("pgrep") \/ Mutated)) => Asked("overwrite")
        /\ answers["overwrite"].empty => answers["overwrite"].res = "n"

C8_Witness ==
    /\ cmd = "init" /\ Did("rm -rf .git") /\ Did("git init")
    /\ answers["overwrite"].res = "y"

C8_WitnessDeclined ==
    /\ cmd = "init" /\ Done /\ answers["overwrite"] = [res |-> "n", empty |-> TRUE]

\* C9: `clone` checks the URL before anything else: with no URL or a text
\* that is no URL it ends with status 1 having shown no prompt, looked up or
\* signalled no process and changed nothing; with a URL, an answer to the
\* confirmation that comes to "n" (empty input included) ends it with status
\* 1 with no lookup and no change.
C9_CloneUrlFirst ==
    cmd = "clone" =>
        /\ BadUrl =>
               /\ \A i \in 1..Len(trace) : trace[i] \in {"git --version", "git status"}
               /\ \A p \in Prompts : ~ Asked(p)
               /\ Done => exitCode = 1
        /\ (Asked("clone") /\ answers["clone"].res # "y") =>
               /\ Done /\ exitCode = 1 /\ ~ uncaught
               /\ ~ Did("pgrep") /\ ~ Did("kill") /\ ~ Mutated
        /\ answers["clone"].empty => answers["clone"].res = "n"
        /\ (Did("pgrep") \/ Mutated) => answers["clone"].res = "y"

C9_Witness ==
    /\ cmd = "clone" /\ Positional3 = UrlScp /\ Done
    /\ out = <<"Invalid URL provided for clone operation">>

C9_WitnessDeclined ==
    /\ cmd = "clone" /\ Done /\ answers["clone"] = [res |-> "n", empty |-> TRUE]

\* C10: in `init` and `clone`, once the termination signal was sent, a wait
\* elapses before the first step that changes the directory or its repository.
C10_WaitAfterKill ==
    (cmd \in {"init", "clone"} /\ Did("kill") /\ Mutated) => Did("sleep")

-----------------------------------------------------------------------------
(* Properties of the order of steps and of the exit status *)

Last == IF trace = <<>> THEN "" ELSE trace[Len(trace)]
Count(e) == Cardinality({i \in 1..Len(trace) : trace[i] = e})
Printed(text) == \E i \in 1..Len(out) : out[i] = text

\* C11: in `push` with the companion running, an accepted termination
\* (default "y") sends the signal and lets the pause pass before the dirty
\* check; a declined one sends no signal and the run goes on to the dirty
\* check instead of ending.
C11_PushGuard ==
    cmd = "push" =>
        /\ Asked("quit") => pidSeen # NoPid /\ Before("pgrep", "prompt quit")
        /\ answers["quit"].empty => answers["quit"].res = "y"
        /\ (answers["quit"].res = "y" /\ (pc = "push_dirty" \/ Did("git diff-index"))) =>
               /\ Before("kill", "sleep")
               /\ Before("sleep", "git diff-index")
               /\ Did("sleep")
        /\ (Asked("quit") /\ answers["quit"].res # "y") =>
               /\ ~ Did("kill") /\ ~ Did("sleep")
               /\ pc = "push_dirty" \/ Did("git diff-index")

C11_Witness ==
    /\ cmd = "push" /\ answers["quit"].res = "n"
    /\ Did("git diff-index") /\ Did("git add") /\ cura = "running"

KnownCommands == {"", "help", "init", "clone", "pull", "push", "cwd"}
FinalStep ==
    [c \in {"init", "clone", "pull", "push"} |->
        CASE c = "init" -> "write .gitignore"
          [] c = "clone" -> "git clone"
          [] c = "pull" -> "git pull"
          [] c = "push" -> "git push"]

\* the run went through its command to the end
Completed ==
    /\ Done /\ ~ uncaught
    /\ \/ cmd \in {"", "help", "cwd"}
       \/ cmd \in DOMAIN FinalStep /\ Last = FinalStep[cmd]

\* C12: an unrecognized subcommand prints the message and the help and ends
\* with status 1, main having run no operation, prompt, lookup or file change
\* (the record holds the two startup checks of the module load at most); a
\* declined confirmation, a missing or invalid URL and "nothing to push" end
\* with status 1; a command that completed, or only informs, ends with 0.
C12_ExitCodes ==
    /\ cmd \notin KnownCommands =>
          /\ \A i \in 1..Len(trace) : trace[i] \in {"git --version", "git status"}
          /\ \A p \in Prompts : ~ Asked(p)
          /\ (Done /\ ~ uncaught) =>
                /\ exitCode = 1
                /\ out = <<"unrecognized command " \o cmd, HelpText>>
    /\ (Done /\ \E p \in {"init", "overwrite", "clone", "kill"} :
                    Asked(p) /\ answers[p].res # "y") => exitCode = 1
    /\ (Done /\ cmd \in {"init", "clone"} /\ BadUrl) => exitCode = 1
    /\ Printed("Looks like there are no changes to push") => Done /\ exitCode = 1
    /\ Completed => exitCode = 0
    /\ exitCode = 0 => Completed

C12_Witness ==
    /\ cmd = "status" /\ Done /\ exitCode = 1 /\ ~ uncaught
    /\ cura = "running"

\* C13: `init` has the ignore list in effect before it pushes: what it commits
\* and pushes holds none of the files the list names.
C13_IgnoredNotPushed ==
    cmd = "init" =>
        /\ Did("git commit") => repo.head \cap gitignoreContent = {}
        /\ Did("git push") =>
               /\ repo.pushed \cap gitignoreContent = {}
               /\ Before("write .gitignore", "git push")

IsMutating(e) == e \in MutatingSteps
Steps == SelectSeq(trace, IsMutating)
IsPrefix(s, t) == Len(s) <= Len(t) /\ s = SubSeq(t, 1, Len(s))

\* initializeRepo, lines 188-207, in the order of the text
InitSequence ==
    (IF isGitInitialized THEN <<"rm -rf .git">> ELSE <<>>)
    \o << "git init", "git remote add", "git add", "git commit", "git push",
          "write .gitignore" >>

C14_WitnessLast ==
    /\ cmd = "init" /\ Done /\ exitCode = 0
    /\ IgnoreFile \in dir /\ IgnoreFile \notin repo.pushed

\* C15 as stated: in `init` the companion lookup and the termination prompt
\* come after the first confirmation and before the overwrite confirmation
\* and the URL check.
C15_GuardBeforeOverwrite ==
    cmd = "init" =>
        /\ Did("pgrep") => Before("prompt init", "pgrep")
        /\ Did("prompt overwrite") => Before("pgrep", "prompt overwrite")
        /\ pc = "init_url" => Did("pgrep")

\* C15, amended: `init` passes its gates in the order first confirmation,
\* overwrite confirmation (only with a repository), URL check, process guard,
\* execution: the companion lookup and the termination prompt come after the
\* two confirmations were answered "y" and the URL was accepted, and before
\* the first step that changes anything.
C15_InitGates ==
    cmd = "init" =>
        /\ pc \in {"init_confirm", "init_already", "init_url"} =>
               ~ Did("pgrep") /\ ~ Did("prompt kill") /\ ~ Mutated
        /\ Did("prompt overwrite") =>
               Before("prompt init", "prompt overwrite") /\ isGitInitialized
        /\ Did("pgrep") =>
               /\ Before("prompt init", "pgrep") /\ answers["init"].res = "y"
               /\ isGitInitialized =>
                      /\ Before("prompt overwrite", "pgrep")
                      /\ answers["overwrite"].res = "y"
               /\ ParsesAsUrl(Positional3)
        /\ Did("prompt kill") => Before("pgrep", "prompt kill")
        /\ Mutated =>
               /\ Did("pgrep")
               /\ Pos("pgrep") < Pos(Steps[1])
               /\ Did("prompt kill") => Pos("prompt kill") < Pos(Steps[1])

C15_Witness ==
    /\ cmd = "init" /\ isGitInitialized
    /\ answers["overwrite"].res = "y" /\ answers["kill"].res = "y"
    /\ Did("rm -rf .git")

\* the dirty check of `push` ran with a last commit and a working copy that
\* differs from it: a tracked file changed, or new files only
DiffersFromHead == dirtyProbe \in {"modified", "untracked"}

\* C16: when the dirty check of `push` finds the working copy different from
\* the last commit, by any difference, new files only included, the run does
\* not end with "nothing to push" but goes on to stage.
C16_DirtyGoesOn ==
    (cmd = "push" /\ DiffersFromHead) =>
        /\ ~ Printed("Looks like there are no changes to push")
        /\ pc = "push_add" \/ Did("git add")

\* C17: a dirty `push` runs stage, staged summary, message prompt, commit,
\* push in this order: the summary only after staging, the commit only after
\* a non-empty message was entered (an empty line asks again), with the
\* message "[curasync] " followed by the text, the push only after the commit
\* succeeded.
C17_PushOrder ==
    cmd = "push" =>
        /\ \A e \in {"git add", "git diff --staged", "git commit", "git push"} :
               Count(e) <= 1
        /\ Did("git add") =>
               Before("git diff-index", "git add") /\ dirtyProbe = "modified"
        /\ Did("git diff --staged") =>
               /\ Before("git add", "git diff --staged")
               /\ repo.staged \/ Did("git commit")
        /\ Did("prompt message") => Before("git diff --staged", "prompt message")
        /\ (Did("prompt message") /\ message = <<>>) =>
               pc = "push_ask" /\ ~ Did("git commit")
        /\ Did("git commit") =>
               /\ Before("prompt message", "git commit")
               /\ trace[Pos("git commit") - 1] = "prompt message"
               /\ message # <<>>
        /\ Did("git push") =>
               /\ Before("git commit", "git push")
               /\ repo.subject = <<"[curasync] ", message>>
               /\ repo.head = repo.index /\ ~ repo.staged
        /\ (Done /\ exitCode = 0) => repo.pushed = repo.head

\* an empty line first, then a message, then the push went through
C17_Witness ==
    /\ cmd = "push" /\ Done /\ exitCode = 0
    /\ Count("prompt message") = 2
    /\ repo.subject = <<"[curasync] ", <<"f", "i", "x">> >>
    /\ repo.pushed = repo.head

\* C18: when git clone fails after the backup, the run ends with a status
\* other than 0, the backup is there with the whole previous content, the
\* directory is there and empty, and nothing was restored, repeated or run
\* after the failed call.
C18_CloneFails ==
    (cmd = "clone" /\ Done /\ Last = "git clone" /\ dir # RemoteFiles \cup {GitDir}) =>
        /\ uncaught /\ exitCode = 1
        /\ \E b \in backups :
              /\ b.stamp = clock
              /\ VersionDir \in b.content /\ (dir0 \ NoDir) \subseteq b.content
        /\ dir = {}
        /\ repo = NoRepo
        /\ Steps = <<"mv", "mkdir", "git clone">>

\* the steps the claim calls destructive, and those that publish
Destructive ==
    { "rm -rf .git", "mv", "mkdir", "git init", "git remote add", "git clone",
      "git commit", "git push", "write .gitignore" }

\* the second argument of each confirm() call
DefaultOf ==
    [p \in Prompts |-> IF p \in {"kill", "quit"} THEN "y" ELSE "n"]

AllEmpty ==
    /\ \A p \in Prompts : Asked(p) => answers[p].empty
    /\ message = <<>>

TypedYes(p) == answers[p].res = "y" /\ ~ answers[p].empty

\* C19: a run whose prompts were all answered with an empty line takes no
\* destructive step; in `init` and `clone` the first rename, removal, git init
\* or git clone comes only after a typed "y" at the first prompt (and, for
\* `init` on a repository, at the overwrite prompt); every confirm() call
\* passes a default, so that none returns null.
C19_EmptyIsSafe ==
    /\ AllEmpty => \A i \in 1..Len(trace) : trace[i] \notin Destructive
    /\ (cmd \in {"init", "clone"} /\ Mutated) =>
          /\ TypedYes(cmd)
          /\ Pos("prompt " \o cmd) < Pos(Steps[1])
          /\ (cmd = "init" /\ isGitInitialized) =>
                TypedYes("overwrite") /\ Pos("prompt overwrite") < Pos(Steps[1])
    /\ \A p \in Prompts :
          /\ answers[p].res \in {"none", "y", "n"}
          /\ answers[p].empty => answers[p].res = DefaultOf[p]

\* both confirmations typed, the termination prompt answered by its default
C19_Witness ==
    /\ cmd = "init" /\ isGitInitialized /\ Did("rm -rf .git")
    /\ answers["kill"].empty /\ answers["kill"].res = "y"

\* C20: a termination signal is sent only after a lookup of the same run
\* found the companion and the prompt that follows came to "y"; help, cwd,
\* pull, the banner and an unrecognized command neither look up nor signal;
\* a run sends one signal at most.
C20_SignalGuarded ==
    /\ Count("kill") <= 1 /\ Count("pgrep") <= 1
    /\ cmd \notin {"init", "clone", "push"} => ~ Did("pgrep") /\ ~ Did("kill")
    /\ cura = "terminating" => Did("kill")
    /\ Did("kill") =>
          /\ Before("pgrep", "kill")
          /\ pidSeen # NoPid
          /\ cmd \in {"init", "clone"} =>
                answers["kill"].res = "y" /\ Before("prompt kill", "kill")
          /\ cmd = "push" =>
                answers["quit"].res = "y" /\ Before("prompt quit", "kill")
    /\ (Asked("kill") \/ Asked("quit")) => Did("pgrep") /\ pidSeen # NoPid

C20_Witness ==
    /\ cmd = "push" /\ Did("kill") /\ cura = "terminating"
    /\ answers["quit"].empty /\ Did("git diff-index")
=============================================================================
